---- MODULE Spec2Model ----
(***************************************************************************)
(* Review apps: PRHandler.Handle (pr.go) drives the App Platform and the   *)
(* GitHub deployments API from pull-request events.  Every handler runs on *)
(* its own goroutine (main.go, AsyncScheduler); one action of the model is *)
(* one gateway call of a handler together with the local code that follows *)
(* it up to the next call.  The two platforms are the only shared state.   *)
(***************************************************************************)
EXTENDS Integers, Sequences, FiniteSets, TLC

\* ------------------------------------------------------------------ bounds
MaxHandlers == 2        \* goroutines handling events at the same time
MaxEvents == 2          \* webhook deliveries in one behaviour, handled concurrently
MaxSeqEvents == 2       \* webhook deliveries in one behaviour, handled one at a time
MaxOkEvents == 3        \* webhook deliveries in one behaviour in which no call fails
MaxLiveEvents == 2      \* webhook deliveries in one behaviour of the specification with fairness
MaxPR == 1              \* pull request numbers 1..MaxPR of the repository
MaxNameLen == 3         \* length of the owner logins and repository names identities are derived from
MaxNumber == 11         \* pull request numbers of one repository identities are derived from
MaxPairNumber == 2      \* pull request numbers of two repositories identities are derived from
MaxComponents == 1      \* services, workers and jobs (each) of an app spec that is transformed

\* --------------------------------------------------------------- constants
actionOpened == "opened"
actionReopened == "reopened"
actionClosed == "closed"
actionSynchronize == "synchronize"
actionOther == "labeled"        \* any action the switch does not list

deploymentStateInactive == "inactive"
deploymentStateSuccess == "success"
deploymentStateError == "error"

DeploymentPhase_Unknown == "UNKNOWN"
DeploymentPhase_Building == "BUILDING"
DeploymentPhase_Active == "ACTIVE"
DeploymentPhase_Error == "ERROR"
DeploymentPhase_Canceled == "CANCELED"
DeploymentPhase_Superseded == "SUPERSEDED"

\* The phases in which the platform stops working on a deployment.
PlatformTerminalPhases ==
    {DeploymentPhase_Active, DeploymentPhase_Error,
     DeploymentPhase_Canceled, DeploymentPhase_Superseded}

Handlers == 1..MaxHandlers
PRNumbers == 1..MaxPR

\* The repository the app is installed on, and a fork of it.
RepoOwner == <<"a", "c">>
RepoName == <<"w">>
BaseRepoID == 1
ForkRepoID == 2

\* ------------------------------------------------------- identity (pr.go:70)
Digit(n) == SubSeq(<<"0", "1", "2", "3", "4", "5", "6", "7", "8", "9">>, n + 1, n + 1)

\* The number printed with its last digit only.
Itoa_LastDigit(n) == Digit(n % 10)

RECURSIVE Itoa(_)
Itoa(n) == IF n < 10 THEN Digit(n) ELSE Itoa(n \div 10) \o Digit(n % 10)

\* fmt.Sprintf("%s-%s-%d", repoOwner, repoName, prNum)
AppName(owner, name, prNum) == owner \o <<"-">> \o name \o <<"-">> \o Itoa(prNum)

\* ------------------------------------------- the app spec (pr.go:190-224)
\* fmt.Sprintf("%s/%s", repoOwner, repoName)
RepoFullName(owner, name) == owner \o <<"/">> \o name

\* A component's GitHub source: absent (the component is built from another
\* kind of source), or a repository, a branch and the deploy-on-push flag.
NoGitHub == [present |-> FALSE, repo |-> <<>>, branch |-> "", deployOnPush |-> FALSE]

\* The source reference pinned whatever repository it points to.
TransformRef_AllRepos(ref, repoFull, prBranch) ==
    IF ~ref.present THEN ref
    ELSE [ref EXCEPT !.deployOnPush = FALSE, !.branch = prBranch]

\* pr.go:216-224: one turn of the loop over githubRefs; the references
\* collected at pr.go:200-215 are those that are present.
TransformRef(ref, repoFull, prBranch) ==
    IF ~ref.present THEN ref
    ELSE IF ref.repo # repoFull THEN ref
    ELSE [ref EXCEPT !.deployOnPush = FALSE, !.branch = prBranch]

TransformComponents(cs, repoFull, prBranch) ==
    [i \in 1..Len(cs) |-> [cs[i] EXCEPT !.github = TransformRef(@, repoFull, prBranch)]]

\* pr.go:190-224: the spec after Handle has rewritten it in place.
Transform(spec, appName, repoFull, prBranch) ==
    [spec EXCEPT !.name = appName,
                 !.domains = <<>>,
                 !.alerts = <<>>,
                 !.services = TransformComponents(@, repoFull, prBranch),
                 !.workers = TransformComponents(@, repoFull, prBranch),
                 !.jobs = TransformComponents(@, repoFull, prBranch)]

\* The head branch of the pull requests, and the branch the committed spec names.
HeadBranch == "feature"
MainBranch == "main"

\* The .do/app.yaml of the repository: a service built from the repository
\* itself, deployed on push to main, with a domain and an alert.
CommittedSpec ==
    [name |-> <<"w">>,
     domains |-> <<"example.com">>,
     alerts |-> <<"DEPLOYMENT_FAILED">>,
     services |-> <<[github |-> [present |-> TRUE,
                                 repo |-> RepoFullName(RepoOwner, RepoName),
                                 branch |-> MainBranch,
                                 deployOnPush |-> TRUE]]>>,
     workers |-> <<>>,
     jobs |-> <<>>]

\* ------------------------------------------------------------------ events
\* A delivered webhook payload: malformed JSON, or a pull_request event.
Events ==
    [wellFormed : {TRUE},
     action : {actionOpened, actionReopened, actionClosed, actionSynchronize, actionOther},
     number : PRNumbers,
     repoID : {BaseRepoID},
     headRepoID : {BaseRepoID, ForkRepoID}]
    \cup
    [wellFormed : {FALSE}, action : {""}, number : {0}, repoID : {0}, headRepoID : {0}]

\* The switch of Handle: the actions it deals with.
HandledAction(action) ==
    action \in {actionOpened, actionReopened, actionClosed, actionSynchronize}

\* repo.GetID() != event.GetPullRequest().GetHead().GetRepo().GetID()
IsFork(e) == e.repoID # e.headRepoID

EnvOf(e) == AppName(RepoOwner, RepoName, e.number)

\* ----------------------------------------------------------------- results
Nil == <<>>
ErrParseEvent == <<"failed to parse pull request event">>
ErrClient == <<"failed to create installation client">>
ErrListGH == <<"failed to list deployments">>
ErrDeleteApp == <<"failed to delete app">>
ErrUpdate == <<"failed to update deployment">>
ErrCreateDeployment == <<"failed to create deployment">>
ErrFetchSpec == <<"failed to fetch app spec">>
ErrCreateApp == <<"failed to create app">>
ErrListDO == <<"failed to list deployments">>
ErrPropagate == "failed to propagate deployment status"
ErrWaitDeployment == "failed to wait deployment to finish"
ErrGetDeployment == "failed to get deployment"
ErrUpdateFailure == "failed to update deployment with failure"
ErrWaitLiveURL == "failed to wait for app to have a live URL"
ErrCanceled == "context canceled"
Panic == <<"panic: index out of range">>

\* -------------------------------------------------------------------- state
VARIABLES
    pc,         \* pc[h]: where handler h stands ("idle", a call site, "done")
    ev,         \* ev[h]: the event handler h is handling
    loc,        \* loc[h]: the local variables of Handle
    result,     \* result[h]: what Handle returned (Nil or the wrapped error chain)
    ctxDone,    \* ctxDone[h]: the handler's context was cancelled
    apps,       \* the platform's apps, by id: name, exists, liveURL
    deps,       \* the platform's deployments, by id: app, phase
    recs,       \* GitHub deployment records, by id: env, appID, status, url
    delivered,  \* number of events delivered so far
    obs,        \* obs[h]: what handler h did to the gateways (observation only)
    turn,       \* turn[h]: parity of the loop turns handler h has made in its waits
    pure        \* inputs and output of a pure function of Handle taken on its own

vars == <<pc, ev, loc, result, ctxDone, apps, deps, recs, delivered, obs, turn, pure>>

NoEvent == [wellFormed |-> FALSE, action |-> "none", number |-> 0, repoID |-> 0, headRepoID |-> 0]

\* d and a are nil pointers before the first fetch of each wait.
InitLoc ==
    [appID |-> 0, deploymentID |-> 0, ghDeploymentID |-> 0, d |-> "nil", a |-> "nil"]

InitObs ==
    [redelivery |-> FALSE,  \* the event is the one this goroutine handled just before
     calls |-> {},          \* the gateway operations called
     listed |-> -1,         \* how many records ListDeployments returned
     first |-> 0,           \* the id of the first record ListDeployments returned
     errAt |-> "none",      \* the gateway call that failed
     afterErr |-> FALSE,    \* a gateway call was made after one had failed
     createdApps |-> {},    \* ids of the apps this handling created
     createdRecs |-> {},    \* ids of the records this handling created
     createdDeps |-> {},    \* ids of the platform deployments this handling triggered
     wrote |-> {},          \* the statuses this handling wrote: [rec, state, url]
     deadCall |-> FALSE,    \* a platform call named an app that was deleted before
     depSat |-> "none",     \* first fetched phase that satisfied the predicate
     depRet |-> "none",     \* what waitForDeploymentTerminal returned
     appSat |-> "none",     \* first fetched live URL that was not empty
     appRet |-> "none",     \* what waitForAppLiveURL returned
     fetchAfterSat |-> FALSE] \* a fetch followed a fetch that satisfied the predicate

\* No pure function is under evaluation while events are handled.
NoPure == [fn |-> "none"]

\* The state of the handlers and of the two platforms after construction.
InitHandlers ==
    /\ pc = [h \in Handlers |-> "idle"]
    /\ ev = [h \in Handlers |-> NoEvent]
    /\ loc = [h \in Handlers |-> InitLoc]
    /\ result = [h \in Handlers |-> Nil]
    /\ ctxDone = [h \in Handlers |-> FALSE]
    /\ apps = <<>>
    /\ deps = <<>>
    /\ recs = <<>>
    /\ delivered = 0
    /\ obs = [h \in Handlers |-> InitObs]
    /\ turn = [h \in Handlers |-> 0]

Init == InitHandlers /\ pure = NoPure


\* ------------------------------------------------------ gateway bookkeeping
\* The gateway calls made with a context of their own.
Outcomes_IgnoresCtx(h) == BOOLEAN

\* A gateway call made with a cancelled context fails; any other call may fail.
Outcomes(h) == IF ctxDone[h] THEN {FALSE} ELSE BOOLEAN

AppExists(a) == a \in 1..Len(apps) /\ apps[a].exists

\* A platform call that names an app fails when the app does not exist.
AppOutcomes(h, a) == IF AppExists(a) THEN Outcomes(h) ELSE {FALSE}

\* The error of a call that failed: it wraps ctx.Err() when the context was
\* done (c), the gateway's own error otherwise.
Cause(c) == IF c THEN <<ErrCanceled>> ELSE <<>>

\* Whether the context is done when a fetch of a wait returns its error: it
\* stays done once it is, and it can be cancelled while the fetch is under way.
CancelChoices(h) == IF ctxDone[h] THEN {TRUE} ELSE BOOLEAN

\* The observation record after gateway operation op returned ok.
Called(o, op, ok) ==
    [o EXCEPT !.calls = @ \cup {op},
              !.afterErr = @ \/ o.errAt # "none",
              !.errAt = IF ok THEN @ ELSE op]

CalledApp(o, op, ok, a) ==
    [Called(o, op, ok) EXCEPT !.deadCall = @ \/ ~AppExists(a)]

\* One turn of a wait of handler h: it moves to p (returning r when p is
\* "done"); c: its context is done by now.
StepWait(h, p, r, o, l, c) ==
    /\ pc' = [pc EXCEPT ![h] = p]
    /\ result' = [result EXCEPT ![h] = r]
    /\ obs' = [obs EXCEPT ![h] = o]
    /\ loc' = [loc EXCEPT ![h] = l]
    /\ ctxDone' = [ctxDone EXCEPT ![h] = c]
    /\ UNCHANGED <<ev, delivered>>

\* One step of handler h outside the waits.
Step(h, p, r, o, l) == StepWait(h, p, r, o, l, ctxDone[h])

Running(h) == pc[h] \notin {"idle", "done"}

\* ------------------------------------------------- the collaborators' lists
RECURSIVE Reverse(_)
Reverse(s) == IF s = <<>> THEN <<>> ELSE Append(Reverse(Tail(s)), Head(s))

Ids(s) == [i \in 1..Len(s) |-> i]

\* client.Repositories.ListDeployments(Environment: appName): the ids of the
\* records of the environment, the most recently created first.
GHListDeployments(env) ==
    LET match(i) == recs[i].env = env
    IN  Reverse(SelectSeq(Ids(recs), match))

\* h.do.Apps.ListDeployments(appID): the app's deployments, the newest first.
DOListDeployments(appID) ==
    LET match(i) == deps[i].app = appID
    IN  Reverse(SelectSeq(Ids(deps), match))

\* ---------------------------------------------------------------- dispatch
\* Handle without the check of the head repository.
Dispatch_NoForkGuard(e, clientOk) ==
    IF ~e.wellFormed THEN [pc |-> "done", result |-> ErrParseEvent]
    ELSE IF ~HandledAction(e.action) THEN [pc |-> "done", result |-> Nil]
    ELSE IF ~clientOk THEN [pc |-> "done", result |-> ErrClient]
    ELSE IF e.action \in {actionClosed, actionSynchronize}
         THEN [pc |-> "listGH", result |-> Nil]
         ELSE [pc |-> "getContents", result |-> Nil]

\* Handle up to its first gateway call (pr.go:42-75, 115, 174).
Dispatch(e, clientOk) ==
    IF ~e.wellFormed THEN [pc |-> "done", result |-> ErrParseEvent]
    ELSE IF ~HandledAction(e.action) THEN [pc |-> "done", result |-> Nil]
    ELSE IF IsFork(e) THEN [pc |-> "done", result |-> Nil]
    ELSE IF ~clientOk THEN [pc |-> "done", result |-> ErrClient]
    ELSE IF e.action \in {actionClosed, actionSynchronize}
         THEN [pc |-> "listGH", result |-> Nil]
         ELSE [pc |-> "getContents", result |-> Nil]

Start(h, e) ==
    /\ \E clientOk \in BOOLEAN :
         LET n == Dispatch(e, clientOk)
         IN  /\ pc' = [pc EXCEPT ![h] = n.pc]
             /\ result' = [result EXCEPT ![h] = n.result]
    /\ ev' = [ev EXCEPT ![h] = e]
    /\ loc' = [loc EXCEPT ![h] = InitLoc]
    /\ obs' = [obs EXCEPT ![h] = [InitObs EXCEPT !.redelivery = (pc[h] = "done" /\ ev[h] = e)]]
    /\ ctxDone' = [ctxDone EXCEPT ![h] = FALSE]
    /\ delivered' = delivered + 1
    /\ UNCHANGED <<apps, deps, recs>>


\* A free goroutine picks the event up; with several free ones, the first.
Deliver(h, e) ==
    /\ ~Running(h)
    /\ \A g \in Handlers : g < h => Running(g)
    /\ delivered < MaxEvents
    /\ Start(h, e)

\* Deliveries one at a time: the next event waits for the handler to return.
DeliverOne(h, e, max) ==
    /\ \A g \in Handlers : ~Running(g)
    /\ h = 1
    /\ delivered < max
    /\ Start(h, e)

DeliverSeq(h, e) == DeliverOne(h, e, MaxSeqEvents)

DeliverOk(h, e) == DeliverOne(h, e, MaxOkEvents)

\* ------------------------------------------------- closed and synchronize
\* Handle without the check for an empty list.
AfterList_NoEmptyCheck(action, n) ==
    IF action = actionClosed THEN "deleteApp" ELSE "createDeployment"

\* pr.go:122-126, 133, 147: where Handle goes with n listed records.
AfterList(action, n) ==
    IF n = 0 THEN "done"
    ELSE IF action = actionClosed THEN "deleteApp" ELSE "createDeployment"

\* The payload decoded into a struct whose field the JSON key does not fill.
PayloadAppID_Empty(r) == 0

\* pr.go:128-131: json.Unmarshal(deployment.Payload, &payload); payload.AppID
PayloadAppID(r) == r.appID

\* pr.go:116-131: list the records of the environment, take the first one
\* and the app id of its payload.
ListGH(h) ==
    /\ pc[h] = "listGH"
    /\ \E ok \in Outcomes(h) :
         LET o == Called(obs[h], "GH.ListDeployments", ok)
             deployments == GHListDeployments(EnvOf(ev[h]))
             n == Len(deployments)
         IN  IF ~ok THEN Step(h, "done", ErrListGH, o, loc[h])
             ELSE Step(h, AfterList(ev[h].action, n), Nil,
                       [o EXCEPT !.listed = n,
                                 !.first = IF n = 0 THEN 0 ELSE Head(deployments)],
                       IF n = 0 THEN loc[h]
                       ELSE [loc[h] EXCEPT !.ghDeploymentID = deployments[1],
                                           !.appID = PayloadAppID(recs[deployments[1]])])
    /\ UNCHANGED <<apps, deps, recs>>

\* The delete call that leaves the app in place.
Deleted_Kept(as, a) == as

\* The platform's apps after app a was deleted.
Deleted(as, a) == [as EXCEPT ![a].exists = FALSE]

\* The error of the delete call dropped.
AfterDelete_IgnoresErr(ok) == "statusInactive"

\* pr.go:136-140: where Handle goes after the delete call.
AfterDelete(ok) == IF ok THEN "statusInactive" ELSE "done"

\* pr.go:135-138: h.do.Apps.Delete(payload.AppID)
DeleteApp(h) ==
    /\ pc[h] = "deleteApp"
    /\ \E ok \in AppOutcomes(h, loc[h].appID) :
         LET o == CalledApp(obs[h], "DO.DeleteApp", ok, loc[h].appID)
         IN  IF ok
             THEN /\ apps' = Deleted(apps, loc[h].appID)
                  /\ Step(h, AfterDelete(TRUE), Nil, o, loc[h])
             ELSE /\ UNCHANGED apps
                  /\ Step(h, AfterDelete(FALSE), ErrDeleteApp, o, loc[h])
    /\ UNCHANGED <<deps, recs>>

\* The record after a status was created on it.
WithStatus(r, state, url) == [r EXCEPT !.status = state, !.url = url]

\* GitHub's CreateDeploymentStatus with AutoInactive: the record takes the
\* status; a success makes the older successful records of the environment
\* inactive.
WriteStatus(id, state, url) ==
    [i \in 1..Len(recs) |->
        IF i = id THEN WithStatus(recs[i], state, url)
        ELSE IF /\ state = deploymentStateSuccess
                /\ i < id
                /\ recs[i].env = recs[id].env
                /\ recs[i].status = deploymentStateSuccess
             THEN WithStatus(recs[i], deploymentStateInactive, "")
             ELSE recs[i]]

Wrote(o, id, state, url) ==
    [o EXCEPT !.wrote = @ \cup {[rec |-> id, state |-> state, url |-> url]}]

\* pr.go:140-146: mark the first listed record inactive.
StatusInactive(h) ==
    /\ pc[h] = "statusInactive"
    /\ \E ok \in Outcomes(h) :
         LET o == Called(obs[h], "GH.CreateDeploymentStatus", ok)
             id == loc[h].ghDeploymentID
         IN  IF ok
             THEN /\ recs' = WriteStatus(id, deploymentStateInactive, "")
                  /\ Step(h, "done", Nil, Wrote(o, id, deploymentStateInactive, ""), loc[h])
             ELSE /\ UNCHANGED recs
                  /\ Step(h, "done", ErrUpdate, o, loc[h])
    /\ UNCHANGED <<apps, deps>>

\* pr.go:151-154: h.do.Apps.CreateDeployment(payload.AppID)
CreateDeployment(h) ==
    /\ pc[h] = "createDeployment"
    /\ \E ok \in AppOutcomes(h, loc[h].appID) :
         LET o == CalledApp(obs[h], "DO.CreateDeployment", ok, loc[h].appID)
             id == Len(deps) + 1
         IN  IF ok
             THEN /\ deps' = Append(deps, [app |-> loc[h].appID, phase |-> DeploymentPhase_Building])
                  /\ Step(h, "createGHDeployment", Nil,
                          [o EXCEPT !.createdDeps = @ \cup {id}],
                          [loc[h] EXCEPT !.deploymentID = id])
             ELSE /\ UNCHANGED deps
                  /\ Step(h, "done", ErrCreateDeployment, o, loc[h])
    /\ UNCHANGED <<apps, recs>>

\* The record created without the app id in its payload.
DeploymentRequest_NoPayload(env, appID) ==
    [env |-> env, appID |-> 0, status |-> "none", url |-> ""]

\* pr.go:156-162 and 234-240: the record asked for: the environment and the
\* payload {app_id}; it has no status yet.
DeploymentRequest(env, appID) ==
    [env |-> env, appID |-> appID, status |-> "none", url |-> ""]

\* pr.go:156-165 and 234-243
CreateGHDeployment(h) ==
    /\ pc[h] = "createGHDeployment"
    /\ \E ok \in Outcomes(h) :
         LET o == Called(obs[h], "GH.CreateDeployment", ok)
             id == Len(recs) + 1
         IN  IF ok
             THEN /\ recs' = Append(recs, DeploymentRequest(EnvOf(ev[h]), loc[h].appID))
                  /\ Step(h,
                          IF ev[h].action = actionSynchronize THEN "getDeployment" ELSE "listDO",
                          Nil,
                          [o EXCEPT !.createdRecs = @ \cup {id}],
                          [loc[h] EXCEPT !.ghDeploymentID = id])
             ELSE /\ UNCHANGED recs
                  /\ Step(h, "done", ErrCreateDeployment, o, loc[h])
    /\ UNCHANGED <<apps, deps>>


\* ------------------------------------------------------ opened and reopened
\* pr.go:175-188: fetch .do/app.yaml from the head branch and parse it.
ErrParseSpec == <<"failed to parse app spec">>

GetContents(h) ==
    /\ pc[h] = "getContents"
    /\ \E ok \in Outcomes(h), valid \in BOOLEAN :
         LET o == Called(obs[h], "GH.GetContents", ok)
         IN  IF ~ok THEN Step(h, "done", ErrFetchSpec, o, loc[h])
             ELSE IF ~valid THEN Step(h, "done", ErrParseSpec, o, loc[h])
             ELSE Step(h, "createApp", Nil, o, loc[h])
    /\ UNCHANGED <<apps, deps, recs>>

\* pr.go:185-224: the spec Handle asks the platform to create.
AppSpecOf(e) ==
    Transform(CommittedSpec, EnvOf(e), RepoFullName(RepoOwner, RepoName), HeadBranch)

\* pr.go:191 and 227-232: h.do.Apps.Create with the spec named after the PR.
CreateApp(h) ==
    /\ pc[h] = "createApp"
    /\ \E ok \in Outcomes(h) :
         LET o == Called(obs[h], "DO.CreateApp", ok)
             id == Len(apps) + 1
         IN  IF ok
             THEN /\ apps' = Append(apps, [name |-> AppSpecOf(ev[h]).name, exists |-> TRUE,
                                           liveURL |-> ""])
                  /\ Step(h, "createGHDeployment", Nil,
                          [o EXCEPT !.createdApps = @ \cup {id}],
                          [loc[h] EXCEPT !.appID = id])
             ELSE /\ UNCHANGED apps
                  /\ Step(h, "done", ErrCreateApp, o, loc[h])
    /\ UNCHANGED <<deps, recs>>

\* pr.go:245-250: h.do.Apps.ListDeployments, then ds[0] without a length check.
ListDO(h) ==
    /\ pc[h] = "listDO"
    /\ \E ok \in AppOutcomes(h, loc[h].appID) :
         LET o == CalledApp(obs[h], "DO.ListDeployments", ok, loc[h].appID)
             ds == DOListDeployments(loc[h].appID)
         IN  IF ~ok THEN Step(h, "done", ErrListDO, o, loc[h])
             ELSE IF Len(ds) = 0 THEN Step(h, "done", Panic, o, loc[h])
             ELSE Step(h, "getDeployment", Nil, o, [loc[h] EXCEPT !.deploymentID = ds[1]])
    /\ UNCHANGED <<apps, deps, recs>>

\* ---------------------------------------------------------------- the waits
\* d.GetPhase() and a.GetLiveURL() are nil-safe getters.
GetPhase(d) == IF d = "nil" THEN DeploymentPhase_Unknown ELSE d

GetLiveURL(a) == IF a = "nil" THEN "" ELSE a

\* The switch without the superseded case.
isInTerminalPhase_NoSuperseded(d) ==
    GetPhase(d) \in {DeploymentPhase_Active, DeploymentPhase_Error, DeploymentPhase_Canceled}

\* pr.go:300-306
isInTerminalPhase(d) ==
    GetPhase(d) \in {DeploymentPhase_Active, DeploymentPhase_Error,
                     DeploymentPhase_Canceled, DeploymentPhase_Superseded}

\* The wait for the live URL ending at its first fetch.
hasLiveURL_FirstFetch(a) == a # "nil"

\* pr.go:283: the loop condition of waitForAppLiveURL, negated.
hasLiveURL(a) == GetLiveURL(a) # ""

\* waitAndPropagate going on to the live URL whatever the phase.
AfterDeployment_IgnoresPhase(d) == "getApp"

\* pr.go:88: what waitAndPropagate does with the deployment the wait returned.
AfterDeployment(d) ==
    IF d # DeploymentPhase_Active THEN "statusError" ELSE "getApp"

\* A failed fetch tried again.
AfterFetchError_Retry(at) == at

\* pr.go:265-267 and 286-288: a failed fetch ends the wait and the handler.
AfterFetchError(at) == "done"

\* The select of a wait (pr.go:269-273, 290-294).  The ticker fires every 2
\* seconds, so its branch can always be taken; the context branch can be
\* taken when the context is done by then.
SelectBranches(done) == IF done THEN {"tick", "ctx"} ELSE {"tick"}

\* One turn of the loop of waitForDeploymentTerminal (pr.go:262-274): the
\* fetch, the select, the loop condition.  canceled: the context is done
\* when the select is reached.
GetDeployment(h) ==
    /\ pc[h] = "getDeployment"
    /\ \E ok \in AppOutcomes(h, loc[h].appID) :
         LET o == CalledApp(obs[h], "DO.GetDeployment", ok, loc[h].appID)
             d == deps[loc[h].deploymentID].phase
             os == [o EXCEPT !.fetchAfterSat = @ \/ o.depSat # "none",
                             !.depSat = IF @ = "none" /\ d \in PlatformTerminalPhases
                                        THEN d ELSE @]
             l == [loc[h] EXCEPT !.d = d]
         IN  IF ~ok
             THEN \E c \in CancelChoices(h) :
                    StepWait(h, AfterFetchError("getDeployment"),
                             <<ErrPropagate, ErrWaitDeployment, ErrGetDeployment>> \o Cause(c),
                             [o EXCEPT !.depRet = "error"], loc[h], c)
             ELSE \E canceled \in BOOLEAN : \E branch \in SelectBranches(canceled) :
                    IF branch = "ctx"
                    THEN StepWait(h, "done", <<ErrPropagate, ErrWaitDeployment, ErrCanceled>>,
                                  [os EXCEPT !.depRet = "canceled"], l, canceled)
                    ELSE IF isInTerminalPhase(d)
                         THEN StepWait(h, AfterDeployment(d), Nil,
                                       [os EXCEPT !.depRet = d], l, canceled)
                         ELSE StepWait(h, "getDeployment", Nil, os, l, canceled)
    /\ UNCHANGED <<apps, deps, recs>>

\* One turn of the loop of waitForAppLiveURL (pr.go:283-295).
GetApp(h) ==
    /\ pc[h] = "getApp"
    /\ \E ok \in AppOutcomes(h, loc[h].appID) :
         LET o == CalledApp(obs[h], "DO.GetApp", ok, loc[h].appID)
             a == apps[loc[h].appID].liveURL
             os == [o EXCEPT !.fetchAfterSat = @ \/ o.appSat # "none",
                             !.appSat = IF @ = "none" /\ a # "" THEN a ELSE @]
             l == [loc[h] EXCEPT !.a = a]
         IN  IF ~ok
             THEN \E c \in CancelChoices(h) :
                    StepWait(h, AfterFetchError("getApp"),
                             <<ErrPropagate, ErrWaitLiveURL, ErrGetDeployment>> \o Cause(c),
                             [o EXCEPT !.appRet = "error"], loc[h], c)
             ELSE \E canceled \in BOOLEAN : \E branch \in SelectBranches(canceled) :
                    IF branch = "ctx"
                    THEN StepWait(h, "done", <<ErrPropagate, ErrWaitLiveURL, ErrCanceled>>,
                                  [os EXCEPT !.appRet = "canceled"], l, canceled)
                    ELSE IF hasLiveURL(a)
                         THEN StepWait(h, "statusSuccess", Nil,
                                       [os EXCEPT !.appRet = a], l, canceled)
                         ELSE StepWait(h, "getApp", Nil, os, l, canceled)
    /\ UNCHANGED <<apps, deps, recs>>

\* pr.go:89-92: the status request of a deployment that did not become active.
ErrorStatus == [state |-> deploymentStateError, url |-> ""]

\* pr.go:104-108: the status request of a live app.
SuccessStatus(a) == [state |-> deploymentStateSuccess, url |-> GetLiveURL(a)]

\* pr.go:89-96
StatusError(h) ==
    /\ pc[h] = "statusError"
    /\ \E ok \in Outcomes(h) :
         LET o == Called(obs[h], "GH.CreateDeploymentStatus", ok)
             id == loc[h].ghDeploymentID
             st == ErrorStatus
         IN  IF ok
             THEN /\ recs' = WriteStatus(id, st.state, st.url)
                  /\ Step(h, "done", Nil, Wrote(o, id, st.state, st.url), loc[h])
             ELSE /\ UNCHANGED recs
                  /\ Step(h, "done", <<ErrPropagate, ErrUpdateFailure>> \o Cause(ctxDone[h]),
                          o, loc[h])
    /\ UNCHANGED <<apps, deps>>

\* pr.go:104-112
StatusSuccess(h) ==
    /\ pc[h] = "statusSuccess"
    /\ \E ok \in Outcomes(h) :
         LET o == Called(obs[h], "GH.CreateDeploymentStatus", ok)
             id == loc[h].ghDeploymentID
             st == SuccessStatus(loc[h].a)
         IN  IF ok
             THEN /\ recs' = WriteStatus(id, st.state, st.url)
                  /\ Step(h, "done", Nil, Wrote(o, id, st.state, st.url), loc[h])
             ELSE /\ UNCHANGED recs
                  /\ Step(h, "done",
                          <<ErrPropagate, "failed to update deployment">> \o Cause(ctxDone[h]),
                          o, loc[h])
    /\ UNCHANGED <<apps, deps>>

\* ------------------------------------------------------------- the platform
HandlerVars == <<pc, ev, loc, result, ctxDone, delivered, obs>>

\* The platform's own moves are taken where a handler is about to read their
\* outcome: from a handler's side a move made earlier looks the same.
Awaits(h, at, a) == pc[h] = at /\ loc[h].appID = a

\* The platform starts the first deployment of a created app.
PlatformInitialDeployment(a) ==
    /\ AppExists(a)
    /\ \E h \in Handlers : Awaits(h, "listDO", a)
    /\ \A i \in 1..Len(deps) : deps[i].app # a
    /\ deps' = Append(deps, [app |-> a, phase |-> DeploymentPhase_Building])
    /\ UNCHANGED <<apps, recs>>
    /\ UNCHANGED HandlerVars

\* A deployment in progress ends in one of the terminal phases; a deployment
\* that becomes active supersedes the app's active one.
PlatformProgress(i, phase) ==
    /\ AppExists(deps[i].app)
    /\ \E h \in Handlers : Awaits(h, "getDeployment", deps[i].app) /\ loc[h].deploymentID = i
    /\ deps[i].phase = DeploymentPhase_Building
    /\ deps' = [j \in 1..Len(deps) |->
                  IF j = i THEN [deps[j] EXCEPT !.phase = phase]
                  ELSE IF /\ phase = DeploymentPhase_Active
                          /\ deps[j].app = deps[i].app
                          /\ deps[j].phase = DeploymentPhase_Active
                       THEN [deps[j] EXCEPT !.phase = DeploymentPhase_Superseded]
                       ELSE deps[j]]
    /\ UNCHANGED <<apps, recs>>
    /\ UNCHANGED HandlerVars

LiveURLOf(a) == "https://app-" \o ToString(a)

\* The app with an active deployment gets its public URL.
PlatformLiveURL(a) ==
    /\ AppExists(a)
    /\ \E h \in Handlers : Awaits(h, "getApp", a)
    /\ apps[a].liveURL = ""
    /\ \E i \in 1..Len(deps) : deps[i].app = a /\ deps[i].phase = DeploymentPhase_Active
    /\ apps' = [apps EXCEPT ![a].liveURL = LiveURLOf(a)]
    /\ UNCHANGED <<deps, recs>>
    /\ UNCHANGED HandlerVars

\* ------------------------------------------------------------ specifications
HandlerStep(h) ==
    \/ ListGH(h)
    \/ DeleteApp(h)
    \/ StatusInactive(h)
    \/ CreateDeployment(h)
    \/ CreateGHDeployment(h)
    \/ GetContents(h)
    \/ CreateApp(h)
    \/ ListDO(h)
    \/ GetDeployment(h)
    \/ GetApp(h)
    \/ StatusError(h)
    \/ StatusSuccess(h)

Platform ==
    \/ \E a \in 1..Len(apps) : PlatformInitialDeployment(a)
    \/ \E i \in 1..Len(deps), phase \in PlatformTerminalPhases : PlatformProgress(i, phase)
    \/ \E a \in 1..Len(apps) : PlatformLiveURL(a)

\* Events handled concurrently, as the asynchronous scheduler runs them.
\* What a step of the handlers and the platforms leaves alone.
Aside == <<turn, pure>>

Next ==
    \/ \E h \in Handlers, e \in Events : Deliver(h, e) /\ UNCHANGED Aside
    \/ \E h \in Handlers : HandlerStep(h) /\ UNCHANGED Aside
    \/ Platform /\ UNCHANGED Aside

Spec == Init /\ [][Next]_vars

\* Events handled to completion one at a time.
NextSeq ==
    \/ \E h \in Handlers, e \in Events : DeliverSeq(h, e) /\ UNCHANGED Aside
    \/ \E h \in Handlers : HandlerStep(h) /\ UNCHANGED Aside
    \/ Platform /\ UNCHANGED Aside

SpecSeq == Init /\ [][NextSeq]_vars

\* Events handled one at a time, with every call succeeding: no handler
\* returns an error, no context is cancelled.
AllSucceed == \A h \in Handlers : result'[h] = Nil /\ ~ctxDone'[h]

NextOk ==
    \/ \E h \in Handlers, e \in Events : DeliverOk(h, e) /\ AllSucceed /\ UNCHANGED Aside
    \/ \E h \in Handlers : HandlerStep(h) /\ AllSucceed /\ UNCHANGED Aside
    \/ Platform /\ UNCHANGED Aside

SpecSeqOk == Init /\ [][NextOk]_vars


\* Events handled one at a time by goroutines that keep running: the Go
\* scheduler runs a runnable goroutine and the ticker of a wait fires every 2
\* seconds, so the next step of a handler is taken in the end; which outcome
\* its gateway call has is up to the gateways and the caller.
Waits == {"getDeployment", "getApp"}

\* The events of one pull request that Handle acts on.
LiveEvents ==
    {e \in Events : e.wellFormed /\ ~IsFork(e) /\ HandledAction(e.action) /\ e.number = 1}

DeliverLive(h, e) == DeliverOne(h, e, MaxLiveEvents)

LiveStep(h) ==
    /\ HandlerStep(h)
    /\ turn' = [turn EXCEPT ![h] = IF pc[h] \in Waits THEN 1 - @ ELSE @]
    /\ UNCHANGED pure

NextLive ==
    \/ \E h \in Handlers, e \in LiveEvents : DeliverLive(h, e) /\ UNCHANGED Aside
    \/ \E h \in Handlers : LiveStep(h)
    \/ Platform /\ UNCHANGED Aside

SpecLive ==
    Init /\ [][NextLive]_vars /\ \A h \in Handlers : WF_vars(LiveStep(h))

\* --------------------------------------------------- the waits on their own
\* waitAndPropagate (pr.go:82-113, called at pr.go:250) taken on its own: an
\* opened/reopened handling has created app 1 and record 1, has listed
\* deployment 1 and enters the wait, with the deployment in any phase and, when
\* it is active, the app with or without its live URL.
EnteringWait(e, phase, url) ==
    /\ pc = [h \in Handlers |-> IF h = 1 THEN "getDeployment" ELSE "idle"]
    /\ ev = [h \in Handlers |-> IF h = 1 THEN e ELSE NoEvent]
    /\ loc = [h \in Handlers |->
                IF h = 1 THEN [InitLoc EXCEPT !.appID = 1, !.deploymentID = 1,
                                              !.ghDeploymentID = 1]
                ELSE InitLoc]
    /\ result = [h \in Handlers |-> Nil]
    /\ ctxDone = [h \in Handlers |-> FALSE]
    /\ apps = <<[name |-> AppSpecOf(e).name, exists |-> TRUE, liveURL |-> url]>>
    /\ deps = <<[app |-> 1, phase |-> phase]>>
    /\ recs = <<DeploymentRequest(EnvOf(e), 1)>>
    /\ delivered = 1
    /\ obs = [h \in Handlers |->
                IF h = 1
                THEN [InitObs EXCEPT !.calls = {"GH.GetContents", "DO.CreateApp",
                                                "GH.CreateDeployment", "DO.ListDeployments"},
                                     !.createdApps = {1},
                                     !.createdRecs = {1}]
                ELSE InitObs]
    /\ turn = [h \in Handlers |-> 0]
    /\ pure = NoPure

InitWait ==
    \E e \in Events, phase \in PlatformTerminalPhases \cup {DeploymentPhase_Building},
       url \in {"", LiveURLOf(1)} :
        /\ e.wellFormed /\ ~IsFork(e) /\ e.action \in {actionOpened, actionReopened}
        /\ url # "" => phase = DeploymentPhase_Active
        /\ EnteringWait(e, phase, url)

\* One step of a handler in waitAndPropagate; turn[h] tells one turn of a
\* wait's loop from the next.
WaitStep(h) ==
    /\ \/ GetDeployment(h)
       \/ GetApp(h)
       \/ StatusError(h)
       \/ StatusSuccess(h)
    /\ turn' = [turn EXCEPT ![h] = IF pc[h] \in Waits THEN 1 - @ ELSE @]
    /\ UNCHANGED pure

NextWait ==
    \/ \E h \in Handlers : WaitStep(h)
    \/ \E i \in 1..Len(deps), phase \in PlatformTerminalPhases :
          PlatformProgress(i, phase) /\ UNCHANGED Aside
    \/ \E a \in 1..Len(apps) : PlatformLiveURL(a) /\ UNCHANGED Aside

\* The goroutine keeps running and the ticker keeps firing: the next step of
\* the handler is taken in the end.
SpecWait ==
    InitWait /\ [][NextWait]_vars /\ \A h \in Handlers : WF_vars(WaitStep(h))

\* ------------------------------------------------- the identity on its own
\* pr.go:65-70 taken as a function of (owner, repository name, PR number).
\* Owner logins and repository names are taken to be letters and single
\* inner hyphens, which both GitHub accepts.
NameChars == {"a", "-"}

StringsUpTo(n) == UNION {[1..k -> NameChars] : k \in 1..n}

Logins ==
    {s \in StringsUpTo(MaxNameLen) :
        /\ s[1] # "-" /\ s[Len(s)] # "-"
        /\ \A i \in 1..(Len(s) - 1) : ~(s[i] = "-" /\ s[i + 1] = "-")}

RepoNames == Logins

PullRequests(maxNumber) == [owner : Logins, name : RepoNames, number : 1..maxNumber]

IdentityOf(t) == AppName(t.owner, t.name, t.number)

\* Two pull requests whose identities are to be derived.
IdentityInputs(ps) ==
    [fn : {"identity"}, p : ps, q : ps, idP : {<<>>}, idQ : {<<>>}, derived : {FALSE}]

DeriveIdentity ==
    /\ pure.fn = "identity"
    /\ ~pure.derived
    /\ pure' = [pure EXCEPT !.idP = IdentityOf(pure.p),
                            !.idQ = IdentityOf(pure.q),
                            !.derived = TRUE]
    /\ UNCHANGED <<pc, ev, loc, result, ctxDone, apps, deps, recs, delivered, obs, turn>>

\* Two pull requests of one repository.
InitIdentity ==
    /\ InitHandlers
    /\ pure \in IdentityInputs(PullRequests(MaxNumber))
    /\ pure.p.owner = pure.q.owner /\ pure.p.name = pure.q.name

NextIdentity == DeriveIdentity

SpecIdentity == InitIdentity /\ [][NextIdentity]_vars

\* Two pull requests of any two repositories.
InitIdentityPairs ==
    /\ InitHandlers
    /\ pure \in IdentityInputs(PullRequests(MaxPairNumber))

SpecIdentityPairs == InitIdentityPairs /\ [][NextIdentity]_vars

\* ------------------------------------------------- the app spec on its own
\* pr.go:185-224 taken as a function of the parsed spec and the pull request.
OtherRepo == RepoFullName(RepoOwner, <<"x">>)

GitHubSources ==
    [present : {TRUE},
     repo : {RepoFullName(RepoOwner, RepoName), OtherRepo},
     branch : {MainBranch},
     deployOnPush : BOOLEAN]
    \cup {NoGitHub}

ComponentLists ==
    UNION {[1..k -> [github : GitHubSources]] : k \in 0..MaxComponents}

AppSpecs ==
    [name : {<<"w">>},
     domains : {<<>>, <<"example.com">>},
     alerts : {<<>>, <<"DEPLOYMENT_FAILED">>},
     services : ComponentLists,
     workers : ComponentLists,
     jobs : ComponentLists]

\* spec is the variable Handle rewrites; input keeps what the parser returned.
InitTransform ==
    /\ InitHandlers
    /\ \E in \in AppSpecs, n \in PRNumbers :
         pure = [fn |-> "transform", number |-> n, input |-> in, spec |-> in,
                 transformed |-> FALSE]

TransformSpec ==
    /\ pure.fn = "transform"
    /\ ~pure.transformed
    /\ pure' = [pure EXCEPT
                  !.spec = Transform(@, AppName(RepoOwner, RepoName, pure.number),
                                     RepoFullName(RepoOwner, RepoName), HeadBranch),
                  !.transformed = TRUE]
    /\ UNCHANGED <<pc, ev, loc, result, ctxDone, apps, deps, recs, delivered, obs, turn>>

NextTransform == TransformSpec

SpecTransform == InitTransform /\ [][NextTransform]_vars

\* ==================================================================== claims
NonFork(e) == e.wellFormed /\ e.repoID = e.headRepoID

OpenedBy(h) ==
    pc[h] # "idle" /\ NonFork(ev[h]) /\ ev[h].action \in {actionOpened, actionReopened}

\* The slot holds a handling of an event Handle deals with.
Handling(h) ==
    /\ pc[h] # "idle"
    /\ NonFork(ev[h])
    /\ ev[h].action \in {actionOpened, actionReopened, actionClosed, actionSynchronize}

PlatformCalls ==
    {"DO.CreateApp", "DO.CreateDeployment", "DO.DeleteApp", "DO.ListDeployments",
     "DO.GetDeployment", "DO.GetApp"}

\* The record creation of handling h was called and did not fail.
RecordCreated(h) ==
    "GH.CreateDeployment" \in obs[h].calls /\ obs[h].errAt # "GH.CreateDeployment"

\* C1: a handling of opened/reopened for a non-fork PR creates at most one
\* app and at most one record, both of the PR's environment identity, the
\* record's payload carrying the id of the app this handling created; once its
\* calls up to the record creation have succeeded (so whenever it returns nil)
\* it has created exactly one app and exactly one record.
C1_OneAppOneRecord ==
    \A h \in Handlers : OpenedBy(h) =>
        /\ Cardinality(obs[h].createdApps) <= 1
        /\ Cardinality(obs[h].createdRecs) <= 1
        /\ \A a \in obs[h].createdApps : apps[a].name = EnvOf(ev[h])
        /\ \A r \in obs[h].createdRecs :
              recs[r].env = EnvOf(ev[h]) /\ recs[r].appID \in obs[h].createdApps
        /\ (pc[h] = "done" /\ result[h] = Nil) => RecordCreated(h)
        /\ RecordCreated(h) =>
              Cardinality(obs[h].createdApps) = 1 /\ Cardinality(obs[h].createdRecs) = 1

C1_Witness ==
    \E h \in Handlers :
        /\ OpenedBy(h) /\ pc[h] = "done" /\ result[h] = Nil
        /\ \E r \in obs[h].createdRecs : recs[r].appID \in obs[h].createdApps

\* C2: an event of a fork, whatever its action, and an event whose action is
\* none of opened/reopened/closed/synchronize, is a no-op: no gateway call,
\* nothing created or written, nil returned.
Rejected(e) ==
    /\ e.wellFormed
    /\ \/ e.repoID # e.headRepoID
       \/ e.action \notin {"opened", "reopened", "closed", "synchronize"}

C2_RejectedIsNoOp ==
    \A h \in Handlers : (pc[h] # "idle" /\ Rejected(ev[h])) =>
        /\ pc[h] = "done"
        /\ result[h] = Nil
        /\ obs[h].calls = {}
        /\ obs[h].createdApps = {} /\ obs[h].createdRecs = {} /\ obs[h].wrote = {}

C2_Witness ==
    \E h \in Handlers :
        /\ pc[h] = "done" /\ result[h] = Nil
        /\ ev[h].wellFormed /\ ev[h].repoID # ev[h].headRepoID
        /\ ev[h].action = actionClosed
        /\ \E a \in 1..Len(apps) : apps[a].exists

\* C3: when events are handled one at a time, every call succeeding, then after
\* a closed event of a non-fork PR has been handled no app of the PR's
\* environment identity is left on the platform.
C3_ClosedLeavesNoApp ==
    \A h \in Handlers :
        (pc[h] = "done" /\ NonFork(ev[h]) /\ ev[h].action = actionClosed) =>
            \A a \in 1..Len(apps) : apps[a].name = EnvOf(ev[h]) => ~apps[a].exists

\* C4: when an event is delivered again after its first handling has returned,
\* the second handling leaves at most one app of the environment identity, names
\* no app that is already deleted in a platform call, and does not fail.
C4_RerunSafe ==
    \A h \in Handlers :
        (pc[h] = "done" /\ Handling(h) /\ obs[h].redelivery) =>
            /\ Cardinality({a \in 1..Len(apps) :
                              apps[a].exists /\ apps[a].name = EnvOf(ev[h])}) <= 1
            /\ ~obs[h].deadCall

\* C5: once a fetch of a wait has returned a state satisfying the predicate,
\* the wait returns that state and fetches no more, whenever the context is
\* cancelled.
C5_PollReturnsSatisfying ==
    \A h \in Handlers :
        /\ ~obs[h].fetchAfterSat
        /\ (obs[h].depSat # "none" /\ obs[h].depRet # "none") => obs[h].depRet = obs[h].depSat
        /\ (obs[h].appSat # "none" /\ obs[h].appRet # "none") => obs[h].appRet = obs[h].appSat

\* C6: when the wait of an opened/reopened/synchronize handling returns a
\* deployment in phase error, canceled or superseded, the handling calls
\* nothing but the status creation on the record it created, with state error
\* and no environment URL; it never writes success, never calls GetApp, and
\* returns nil once the status is written.
NotActive == {DeploymentPhase_Error, DeploymentPhase_Canceled, DeploymentPhase_Superseded}

C6_FailedDeploymentReported ==
    \A h \in Handlers : (Handling(h) /\ obs[h].depRet \in NotActive) =>
        /\ "DO.GetApp" \notin obs[h].calls
        /\ pc[h] \in {"statusError", "done"}
        /\ \A w \in obs[h].wrote :
              /\ w.state = "error" /\ w.url = ""
              /\ obs[h].createdRecs = {w.rec}
        /\ pc[h] = "done" =>
              IF obs[h].errAt = "none"
              THEN result[h] = Nil /\ Cardinality(obs[h].wrote) = 1
              ELSE /\ obs[h].errAt = "GH.CreateDeploymentStatus"
                   /\ obs[h].wrote = {}
                   /\ result[h] # Nil

C6_Witness ==
    \E h \in Handlers :
        /\ Handling(h) /\ obs[h].depRet = DeploymentPhase_Superseded
        /\ pc[h] = "done" /\ result[h] = Nil
        /\ \E r \in obs[h].createdRecs : recs[r].status = "error" /\ recs[r].url = ""

\* C7: a handling writes status success only after its wait returned the
\* deployment in phase active and a fetch of the app showed a non-empty live
\* URL, and the environment URL it writes is that URL; no record has status
\* success with an empty environment URL.
C7_SuccessHasLiveURL ==
    /\ \A r \in 1..Len(recs) : recs[r].status = "success" => recs[r].url # ""
    /\ \A h \in Handlers : \A w \in obs[h].wrote : w.state = "success" =>
          /\ obs[h].depRet = "ACTIVE"
          /\ obs[h].appSat \notin {"none", ""}
          /\ w.url = obs[h].appSat
          /\ obs[h].createdRecs = {w.rec}

C7_Witness ==
    \E h \in Handlers : \E w \in obs[h].wrote :
        /\ w.state = "success" /\ w.url # ""
        /\ recs[w.rec].status = "success" /\ recs[w.rec].url = w.url

\* C8: a synchronize or closed handling whose list of the environment's
\* records is empty makes no platform call, creates no record, writes no status
\* and returns nil.
C8_NoRecordNoOp ==
    \A h \in Handlers :
        (/\ pc[h] # "idle" /\ NonFork(ev[h])
         /\ ev[h].action \in {"synchronize", "closed"}
         /\ obs[h].listed = 0) =>
            /\ pc[h] = "done" /\ result[h] = Nil
            /\ obs[h].calls \cap PlatformCalls = {}
            /\ obs[h].calls = {"GH.ListDeployments"}
            /\ obs[h].createdRecs = {} /\ obs[h].createdDeps = {} /\ obs[h].wrote = {}

C8_Witness ==
    \E h \in Handlers :
        /\ pc[h] = "done" /\ NonFork(ev[h]) /\ ev[h].action = actionSynchronize
        /\ obs[h].listed = 0
        /\ \E a \in 1..Len(apps) : apps[a].exists

\* C9: on closed, when DeleteApp succeeded and the status update fails, Handle
\* returns the failure of the update step, the app is deleted, and the failing
\* step leaves every record as it was.
ClosedUpdateFailed(h) ==
    /\ pc[h] = "done" /\ NonFork(ev[h]) /\ ev[h].action = actionClosed
    /\ obs[h].errAt = "GH.CreateDeploymentStatus"

C9_State ==
    \A h \in Handlers : ClosedUpdateFailed(h) =>
        /\ result[h] = <<"failed to update deployment">>
        /\ "DO.DeleteApp" \in obs[h].calls
        /\ ~apps[loc[h].appID].exists
        /\ obs[h].wrote = {}

C9_Step ==
    \A h \in Handlers :
        (pc[h] = "statusInactive" /\ pc'[h] = "done" /\ result'[h] # Nil) => recs' = recs

C9_UpdateFailureAfterDelete == [](C9_State) /\ [][C9_Step]_vars

C9_Witness ==
    \E h \in Handlers :
        /\ ClosedUpdateFailed(h)
        /\ recs[loc[h].ghDeploymentID].status = "success"

\* C10: a failed gateway call ends the handling: the handler is done with a
\* non-nil error and has made no gateway call after the failed one.
C10_FailureAborts ==
    \A h \in Handlers : obs[h].errAt # "none" =>
        /\ pc[h] = "done"
        /\ result[h] # Nil
        /\ ~obs[h].afterErr

C10_Witness ==
    \E h \in Handlers :
        /\ obs[h].errAt = "DO.GetApp" /\ pc[h] = "done"
        /\ obs[h].appRet = "error"

\* C11: when the context of an opened, reopened or synchronize handling is
\* cancelled while the handling is inside one of its two waits, the wait ends
\* (at the select, or at the next gateway call, which fails), Handle returns an
\* error that wraps the context's error, which the error of a failed fetch
\* does not, and no status is written on the record the handling created.
LastOf(s) == s[Len(s)]

Fetches == {"DO.GetDeployment", "DO.GetApp"}

C12_NoCollision ==
    (pure.fn = "identity" /\ pure.derived) =>
        (pure.p # pure.q => pure.idP # pure.idQ)

\* C13: the identity is a function of (owner, repository name, PR number)
\* alone, and with the owner and the repository fixed two pull requests get
\* the same identity exactly when their numbers are equal.
C13_IdentityPerNumber ==
    (pure.fn = "identity" /\ pure.derived) =>
        /\ pure.p.owner = pure.q.owner /\ pure.p.name = pure.q.name
        /\ (pure.idP = pure.idQ) <=> (pure.p.number = pure.q.number)
        /\ Len(pure.idP) >= Len(pure.p.owner) + Len(pure.p.name) + 3

C13_Witness ==
    /\ pure.fn = "identity" /\ pure.derived
    /\ pure.p.number = 1 /\ pure.q.number = 11
    /\ pure.p.owner = <<"a", "-", "a">>
    /\ pure.idP = <<"a", "-", "a", "-", "a", "-", "1">>
    /\ pure.idQ = <<"a", "-", "a", "-", "a", "-", "1", "1">>

\* C14: the spec given to the platform on opened/reopened has the environment
\* identity as its name, no domains and no alerts; each service, worker and
\* job keeps its place; a GitHub source of the PR's repository has deploy on
\* push off and the PR's head branch; a GitHub source of another repository,
\* and a component without a GitHub source, is as in the input.
Kinds == {"services", "workers", "jobs"}

Pinned(before, after) ==
    /\ after.present /\ after.repo = before.repo
    /\ after.deployOnPush = FALSE
    /\ after.branch = "feature"

C14_SpecScopedToPR ==
    (pure.fn = "transform" /\ pure.transformed) =>
        /\ pure.spec.name = <<"a", "c", "-", "w", "-">> \o Itoa(pure.number)
        /\ pure.spec.domains = <<>>
        /\ pure.spec.alerts = <<>>
        /\ \A k \in Kinds :
              /\ Len(pure.spec[k]) = Len(pure.input[k])
              /\ \A i \in 1..Len(pure.input[k]) :
                    LET before == pure.input[k][i].github
                        after == pure.spec[k][i].github
                    IN  IF before.present /\ before.repo = <<"a", "c", "/", "w">>
                        THEN Pinned(before, after)
                        ELSE after = before

C14_Witness ==
    /\ pure.fn = "transform" /\ pure.transformed
    /\ pure.input.domains # <<>> /\ pure.input.alerts # <<>>
    /\ Len(pure.input.services) = 1 /\ Len(pure.input.workers) = 1 /\ Len(pure.input.jobs) = 1
    /\ pure.input.services[1].github.repo = <<"a", "c", "/", "w">>
    /\ pure.input.services[1].github.deployOnPush
    /\ pure.spec.services[1].github.branch = "feature"
    /\ pure.input.workers[1].github.repo = <<"a", "c", "/", "x">>
    /\ pure.input.workers[1].github.deployOnPush
    /\ pure.spec.workers[1].github = pure.input.workers[1].github
    /\ ~pure.input.jobs[1].github.present

\* C15: a closed handling that listed a record calls DeleteApp on the app id
\* of the payload of the first listed record before it writes any status; it
\* writes a status, inactive and on that record, only after DeleteApp has
\* succeeded; it creates no platform deployment, no record and no app.
ClosedBy(h) == pc[h] # "idle" /\ NonFork(ev[h]) /\ ev[h].action = actionClosed

SynchronizeBy(h) == pc[h] # "idle" /\ NonFork(ev[h]) /\ ev[h].action = actionSynchronize

AllCallsSucceeded(h) ==
    pc[h] = "done" /\ obs[h].errAt = "none" /\ result[h] = Nil

C17_ClosedRace ==
    \A h, g \in Handlers :
        (/\ h # g /\ delivered = 2
         /\ ClosedBy(h)
         /\ OpenedBy(g) \/ SynchronizeBy(g)
         /\ ev[h].number = ev[g].number
         /\ AllCallsSucceeded(h) /\ AllCallsSucceeded(g)) =>
            /\ \A a \in 1..Len(apps) : apps[a].name = EnvOf(ev[h]) => ~apps[a].exists
            /\ ~obs[h].deadCall /\ ~obs[g].deadCall

\* C18: an opened/reopened handling never indexes an empty list of platform
\* deployments: after the app and the record were created it gets the id of
\* the app's first deployment and enters the wait, also when the platform
\* lists no deployment of the app yet.
C18_InitialDeploymentFound ==
    \A h \in Handlers : OpenedBy(h) =>
        /\ result[h] # Panic
        /\ ("DO.ListDeployments" \in obs[h].calls /\ obs[h].errAt # "DO.ListDeployments") =>
              /\ loc[h].deploymentID \in 1..Len(deps)
              /\ deps[loc[h].deploymentID].app = loc[h].appID
              /\ pc[h] # "listDO"

\* C19: when an opened/reopened handling has returned, with nil or with an
\* error, every app it created is named by the payload of a record of the
\* environment identity.
C19_CreatedAppRecoverable ==
    \A h \in Handlers : (OpenedBy(h) /\ pc[h] = "done") =>
        \A a \in obs[h].createdApps :
            \E r \in 1..Len(recs) : recs[r].env = EnvOf(ev[h]) /\ recs[r].appID = a

\* C20: under fairness of the handlers' steps each wait returns in the end
\* when it can: (a) once the awaited deployment is in a terminal phase, or the
\* app has a live URL, the wait returns that state, unless a fetch fails or
\* the context is cancelled first; (b) once the context is done, the wait
\* returns; (c) a wait that has not returned makes another turn of its loop,
\* and it ends in no other way than by a satisfying state, a failed fetch or
\* the cancellation: it has no bound of its own.
Escaped == {"error", "canceled"}

DeploymentSettled(h) ==
    pc[h] = "getDeployment" /\ deps[loc[h].deploymentID].phase \in PlatformTerminalPhases

DeploymentReturned(h) ==
    \/ obs[h].depRet \in Escaped
    \/ /\ loc[h].deploymentID \in 1..Len(deps)
       /\ obs[h].depRet = deps[loc[h].deploymentID].phase

AppLive(h) == pc[h] = "getApp" /\ apps[loc[h].appID].liveURL # ""

AppReturned(h) ==
    \/ obs[h].appRet \in Escaped
    \/ /\ loc[h].appID \in 1..Len(apps)
       /\ obs[h].appRet = apps[loc[h].appID].liveURL

WaitEnds(h) ==
    /\ (pc[h] = "getDeployment" /\ pc'[h] # "getDeployment") =>
          \/ obs'[h].depRet \in Escaped
          \/ obs'[h].depRet \in PlatformTerminalPhases /\ obs'[h].depRet = loc'[h].d
    /\ (pc[h] = "getApp" /\ pc'[h] # "getApp") =>
          \/ obs'[h].appRet \in Escaped
          \/ obs'[h].appRet # "" /\ obs'[h].appRet = loc'[h].a

C20_WaitsReturn ==
    /\ \A h \in Handlers : DeploymentSettled(h) ~> DeploymentReturned(h)
    /\ \A h \in Handlers : AppLive(h) ~> AppReturned(h)
    /\ \A h \in Handlers : (pc[h] = "getDeployment" /\ ctxDone[h]) ~> (obs[h].depRet # "none")
    /\ \A h \in Handlers : (pc[h] = "getApp" /\ ctxDone[h]) ~> (obs[h].appRet # "none")
    /\ \A h \in Handlers : \A t \in {0, 1} :
          (pc[h] \in Waits /\ turn[h] = t) ~> (pc[h] \notin Waits \/ turn[h] # t)
    /\ [][\A h \in Handlers : WaitEnds(h)]_vars

C20_Witness ==
    \E h \in Handlers :
        /\ pc[h] = "getApp" /\ ~ctxDone[h]
        /\ loc[h].a = "" /\ turn[h] = 1
        /\ apps[loc[h].appID].liveURL # ""

====
